---- MODULE Spec2Model ----
(***************************************************************************)
(* DiffDen: the change watcher (src/watcher.ts) feeding the snapshot store *)
(* (tracker.ts) of one project.  One project slug with the watched         *)
(* files Files; a key is (slug, file), so a key is named by its file.      *)
(*                                                                         *)
(* Time is the debounce clock: every pending timer holds the milliseconds  *)
(* left until it expires.  An expired timer runs before anything else      *)
(* happens (the runtime runs expired timers first in a loop iteration), so *)
(* time never passes an expiry.                                            *)
(*                                                                         *)
(* A git command is one atomic step on the repository (git serialises its  *)
(* commands on the index lock); the awaits between the commands are the    *)
(* points where other callbacks interleave.                                *)
(***************************************************************************)
EXTENDS Naturals, Integers, Sequences, FiniteSets, TLC

\* ---------------------------------------------------------------- bounds
MaxEvents == 3        \* raw change events handled (timers created) in a run
MaxWatches == 2       \* watchers created in a run
TicksPerWindow == 2   \* clock resolution: ticks per debounce window
MaxCmds == 4          \* application starts and commands issued in a run
MaxRestores == 1      \* restore calls in a run
MaxClock == 1         \* seconds the wall clock advances in a run
MaxInFlight == 2      \* snapshot calls a store client has in flight
MaxRegistryCalls == 4 \* registry calls (load, add, remove, start) in a run
MaxTasks == 2         \* stopWatching and stopAll calls in a run
MaxFsw == 2           \* FSWatchers created in a run of the watch table

\* ------------------------------------------------------------- constants
DEBOUNCE_MS == 500

Files == {"a.md", "b.md"}
Contents == {"v1", "v2"}
Absent == "absent"
NoFile == "none"
\* No AppConfig object: a value that is no registry (a project without a
\* slug, directory and files).
NoConfig == <<[slug |-> "", dir |-> <<>>, files |-> <<>>]>>

TickMs == DEBOUNCE_MS \div TicksPerWindow

\* The columns of the terminal UI and its layout breakpoints.
COL_PROJECTS == 0
COL_FILES == 1
COL_SNAPSHOTS == 2
COL_PREVIEW == 3
WIDE_LAYOUT_BREAKPOINT == 120
SNAPSHOT_DIFF_ONLY_BREAKPOINT == 105
NoColumn == 0 - 1
\* Terminal widths on both sides of each breakpoint.
Widths == {79, 80, 104, 105, 119, 120}
\* The UI before startApp has built it.
UiOff == [phase |-> "off", width |-> 0, focusedColumn |-> 0, visible |-> {},
          expandedColumn |-> NoColumn, previewMode |-> "diff",
          commandMode |-> FALSE, pending |-> {}]

\* Strings of the watch table, as sequences of their parts, so that a key
\* is the concatenation the code builds and endsWith is a suffix test.
\* "x:a" is a base name with a colon in it, "ba" one that ends with "a".
Slugs == {"p", "q"}
NoName == <<>>
FileNames == {<<"a">>, <<"x", ":", "a">>, <<"b", "a">>}
\* The key of an entry: `${slug}:${fileName}`.
Key(slug, fileName) == <<slug, ":">> \o fileName
AllKeys == {Key(s, n) : s \in Slugs, n \in FileNames}

VARIABLES
  file,            \* the user's source files: content, or Absent
  work,            \* the copies in the project's repository directory
  index,           \* the repository's staging area
  commits,         \* the repository's history, oldest first
  watchers,        \* the watch table: "open" for a key in it, else "none"
  gen,             \* watchers created so far per key (the live closure)
  debounceTimer,   \* the live closure's timer handle per key, 0 = null
  timers,          \* the runtime's pending timers
  nextTimer,       \* the next timer handle
  calls,           \* timer callbacks in flight (each inside snapshot)
  notified,        \* invocations of the notification callback per key
  age,             \* ms since the last raw event of the key (saturating)
  burstEvents,     \* raw events of the key's current burst
  burstSettles,    \* settles since the key's current burst began
  sinceEvent,      \* settles since the key's last raw event
  registry,        \* the project registry on disk: the files listed
  phase,           \* the application process: "off", "up" or "quitting"
  cmds,            \* the commands of the process that are awaiting
  issued,          \* commands issued so far
  now,             \* the wall clock in whole seconds, as git records it
  ret,             \* the last restore: its arguments and what it returned
  config,          \* the AppConfig object the process holds, or NoConfig
  disk,            \* config.json: its content and whether it can be written
  op,              \* the last registry call: its name, path and outcome,
                   \* and the config it was given
  entries,         \* the watchers Map: its entries in insertion order
  fsw,             \* the FSWatchers created: state and awaiters of close
  tasks,           \* the stopWatching and stopAll calls made so far
  last,            \* per key, the kind of the last call made for it
  ui               \* the terminal UI: width, focus, visible columns, modes

vars == <<file, work, index, commits, watchers, gen, debounceTimer, timers,
          nextTimer, calls, notified, age, burstEvents, burstSettles,
          sinceEvent, registry, phase, cmds, issued, now, ret, config, disk,
          op, entries, fsw, tasks, last, ui>>

repoVars == <<work, index, commits>>
watchVars == <<watchers, gen, debounceTimer>>
burstVars == <<age, burstEvents, burstSettles, sinceEvent>>
appVars == <<registry, phase, cmds, issued>>
storeVars == <<now, ret>>
regVars == <<config, disk, op>>
tableVars == <<entries, fsw, tasks, last>>
uiVars == <<ui>>

Min(a, b) == IF a <= b THEN a ELSE b

\* ------------------------------------------------------------ repository
EmptyTree == [f \in Files |-> Absent]

\* The tree of HEAD: what the store last recorded for every path.
HeadTree == IF commits = <<>> THEN EmptyTree ELSE commits[Len(commits)].tree

\* git status: the paths whose staged content differs from HEAD.
Staged == {f \in Files : index[f] # HeadTree[f]}

\* A commit that rewrites the newest entry instead of adding one.
GitCommitAmend(label, by) ==
  IF commits = <<>>
    THEN <<[tree |-> index, label |-> label, by |-> by, date |-> now]>>
    ELSE [commits EXCEPT ![Len(commits)] =
            [tree |-> index, label |-> label, by |-> by, date |-> now]]

\* git commit -m "[label] auto-snapshot": records the whole index, dated
\* by the clock.
GitCommit(label, by) ==
  Append(commits, [tree |-> index, label |-> label, by |-> by, date |-> now])

\* --------------------------------------------------------------- watcher
onSnapshotCallback == TRUE

PendingFor(k) == {t \in timers : t.key = k}
NoneDue == \A t \in timers : t.remaining > 0

\* clearTimeout(debounceTimer): an unknown or fired handle is a no-op.
ClearTimeout(h) == {t \in timers : t.id # h}

\* watcher.on("change"): cancel the closure's timer, arm a new one.
OnChange(k) ==
  /\ nextTimer <= MaxEvents
  /\ timers' = ClearTimeout(debounceTimer[k]) \cup
                 {[id |-> nextTimer, key |-> k, gen |-> gen[k],
                   remaining |-> DEBOUNCE_MS]}
  /\ debounceTimer' = [debounceTimer EXCEPT ![k] = nextTimer]
  /\ nextTimer' = nextTimer + 1
  /\ age' = [age EXCEPT ![k] = 0]
  /\ burstEvents' = [burstEvents EXCEPT
                       ![k] = IF age[k] >= DEBOUNCE_MS THEN 1 ELSE @ + 1]
  /\ burstSettles' = [burstSettles EXCEPT
                        ![k] = IF age[k] >= DEBOUNCE_MS THEN 0 ELSE @]
  /\ sinceEvent' = [sinceEvent EXCEPT ![k] = 0]

Init ==
  /\ file = [f \in Files |-> "v1"]
  /\ work = EmptyTree
  /\ index = EmptyTree
  /\ commits = <<>>
  /\ watchers = [f \in Files |-> "none"]
  /\ gen = [f \in Files |-> 0]
  /\ debounceTimer = [f \in Files |-> 0]
  /\ timers = {}
  /\ nextTimer = 1
  /\ calls = {}
  /\ notified = [f \in Files |-> 0]
  /\ age = [f \in Files |-> DEBOUNCE_MS]
  /\ burstEvents = [f \in Files |-> 0]
  /\ burstSettles = [f \in Files |-> 0]
  /\ sinceEvent = [f \in Files |-> 0]
  /\ registry = {}
  /\ phase = "off"
  /\ cmds = {}
  /\ issued = 0
  /\ now = 0
  /\ ret = [n |-> 0, rev |-> 0, file |-> NoFile, fail |-> "none",
            value |-> "none", at |-> 0]
  /\ config = NoConfig
  /\ disk = [content |-> [kind |-> "missing"], writable |-> TRUE]
  /\ op = [n |-> 0, name |-> "none", path |-> <<>>, raised |-> FALSE,
           before |-> NoConfig]
  /\ entries = <<>>
  /\ fsw = <<>>
  /\ tasks = <<>>
  /\ last = [k \in AllKeys |-> "none"]
  /\ ui = UiOff

\* ----------------------------------------------------------- environment
\* The file is rewritten; an open watcher reports a raw change event.
Write(f, c) ==
  /\ NoneDue
  /\ file[f] # Absent
  /\ file' = [file EXCEPT ![f] = c]
  /\ IF watchers[f] = "open"
       THEN OnChange(f)
       ELSE UNCHANGED <<timers, debounceTimer, nextTimer, burstVars>>
  /\ UNCHANGED <<repoVars, watchers, gen, calls, notified>>
  /\ UNCHANGED <<appVars, storeVars, regVars, tableVars, uiVars>>

\* The file is deleted: an unlink event, which has no handler.
Delete(f) ==
  /\ NoneDue
  /\ file[f] # Absent
  /\ file' = [file EXCEPT ![f] = Absent]
  /\ UNCHANGED <<repoVars, watchVars, timers, nextTimer, calls, notified,
                 burstVars>>
  /\ UNCHANGED <<appVars, storeVars, regVars, tableVars, uiVars>>

\* The file reappears: an add event, which has no handler.
Create(f, c) ==
  /\ NoneDue
  /\ file[f] = Absent
  /\ file' = [file EXCEPT ![f] = c]
  /\ UNCHANGED <<repoVars, watchVars, timers, nextTimer, calls, notified,
                 burstVars>>
  /\ UNCHANGED <<appVars, storeVars, regVars, tableVars, uiVars>>

\* Time passes, never beyond the next expiry.
Tick ==
  /\ timers # {}
  /\ NoneDue
  /\ \E d \in 1..TickMs :
       /\ \A t \in timers : t.remaining >= d
       /\ d = TickMs \/ \E t \in timers : t.remaining = d
       /\ timers' = {[t EXCEPT !.remaining = @ - d] : t \in timers}
       /\ age' = [k \in Files |-> Min(age[k] + d, DEBOUNCE_MS)]
  /\ UNCHANGED <<file, repoVars, watchVars, nextTimer, calls, notified,
                 burstEvents, burstSettles, sinceEvent>>
  /\ UNCHANGED <<appVars, storeVars, regVars, tableVars, uiVars>>

\* ------------------------------------------------------- start and stop
Created == gen["a.md"] + gen["b.md"]
\* A start that takes every file of the project, in the table or not.
StartableAll(fs) == fs

\* The files of the project that startWatching does not skip.
Startable(fs) == {f \in fs : watchers[f] = "none"}

\* startWatching's loop over project.files = fs: a key already in the
\* table is skipped, every other one gets a new watcher and a new closure
\* whose debounceTimer is null.
StartWatchingLoop(fs) ==
  /\ watchers' = [f \in Files |->
                    IF f \in Startable(fs) THEN "open" ELSE watchers[f]]
  /\ gen' = [f \in Files |->
               IF f \in Startable(fs) THEN gen[f] + 1 ELSE gen[f]]
  /\ debounceTimer' = [f \in Files |->
                         IF f \in Startable(fs) THEN 0 ELSE debounceTimer[f]]

\* startWatching(project) called with some files to start.
StartWatching(fs) ==
  /\ NoneDue
  /\ Startable(fs) # {}
  /\ Created + Cardinality(Startable(fs)) <= MaxWatches
  /\ StartWatchingLoop(fs)
  /\ UNCHANGED <<file, repoVars, timers, nextTimer, calls, notified,
                 burstVars>>
  /\ UNCHANGED <<appVars, storeVars, regVars, tableVars, uiVars>>

\* What stopping a set of keys does: each watcher is closed and its key
\* leaves the table.  The closures' timers are not touched.
Close(ks) == [k \in Files |-> IF k \in ks THEN "none" ELSE watchers[k]]

\* stopWatching(slug, fileName).
StopWatching(k) ==
  /\ NoneDue
  /\ watchers[k] = "open"
  /\ watchers' = Close({k})
  /\ UNCHANGED <<file, repoVars, gen, debounceTimer, timers, nextTimer, calls,
                 notified, burstVars>>
  /\ UNCHANGED <<appVars, storeVars, regVars, tableVars, uiVars>>

\* stopAll().
StopAll ==
  /\ NoneDue
  /\ \E k \in Files : watchers[k] = "open"
  /\ watchers' = Close(Files)
  /\ UNCHANGED <<file, repoVars, gen, debounceTimer, timers, nextTimer, calls,
                 notified, burstVars>>
  /\ UNCHANGED <<appVars, storeVars, regVars, tableVars, uiVars>>

\* ------------------------------------------------------- timer callback
InFlight(k) == {c \in calls : c.key = k}

\* A callback that returns at once while a commit of its key is running.
SettleUnlessBusy(t) ==
  /\ t \in timers
  /\ t.remaining = 0
  /\ \A u \in timers : u.remaining = 0 => t.id <= u.id
  /\ timers' = timers \ {t}
  /\ calls' = IF InFlight(t.key) # {} THEN calls
              ELSE calls \cup {[seq |-> t.id, key |-> t.key, pc |-> "getGit",
                                hash |-> 0]}
  /\ burstSettles' = [burstSettles EXCEPT ![t.key] = @ + 1]
  /\ sinceEvent' = [sinceEvent EXCEPT ![t.key] = @ + 1]
  /\ UNCHANGED <<file, repoVars, watchVars, nextTimer, notified, age,
                 burstEvents>>
  /\ UNCHANGED <<appVars, storeVars, regVars, tableVars, uiVars>>

\* The debounce timer expires: the callback starts and calls snapshot,
\* which awaits getGit.
Settle(t) ==
  /\ t \in timers
  /\ t.remaining = 0
  /\ \A u \in timers : u.remaining = 0 => t.id <= u.id
  /\ timers' = timers \ {t}
  /\ calls' = calls \cup {[seq |-> t.id, key |-> t.key, pc |-> "getGit",
                           hash |-> 0]}
  /\ burstSettles' = [burstSettles EXCEPT ![t.key] = @ + 1]
  /\ sinceEvent' = [sinceEvent EXCEPT ![t.key] = @ + 1]
  /\ UNCHANGED <<file, repoVars, watchVars, nextTimer, notified, age,
                 burstEvents>>
  /\ UNCHANGED <<appVars, storeVars, regVars, tableVars, uiVars>>

Move(c, pc) == (calls \ {c}) \cup {[c EXCEPT !.pc = pc]}

\* A callback that notifies whatever snapshot returned.
FinishAlwaysNotify(c, hash) ==
  /\ calls' = calls \ {c}
  /\ notified' = [notified EXCEPT
                    ![c.key] = IF onSnapshotCallback THEN @ + 1 ELSE @]

\* The callback's end: notify when snapshot returned a hash.
Finish(c, hash) ==
  /\ calls' = calls \ {c}
  /\ notified' = [notified EXCEPT
                    ![c.key] = IF hash # 0 /\ onSnapshotCallback
                                 THEN @ + 1 ELSE @]

\* A snapshot that queues behind every callback that started before it.
SnapshotCopyQueued(c) ==
  /\ c \in calls
  /\ c.pc = "getGit"
  /\ \A d \in calls : c.seq <= d.seq
  /\ IF file[c.key] = Absent
       THEN /\ Finish(c, 0)
            /\ UNCHANGED work
       ELSE /\ work' = [work EXCEPT ![c.key] = file[c.key]]
            /\ calls' = Move(c, "add")
            /\ UNCHANGED <<notified>>
  /\ UNCHANGED <<file, index, commits, watchVars, timers, nextTimer, burstVars>>
  /\ UNCHANGED <<appVars, storeVars, regVars, tableVars, uiVars>>

\* A snapshot that does not look whether the source exists.
SnapshotCopyUnchecked(c) ==
  /\ c \in calls
  /\ c.pc = "getGit"
  /\ work' = [work EXCEPT ![c.key] = file[c.key]]
  /\ calls' = Move(c, "add")
  /\ UNCHANGED <<file, index, commits, watchVars, timers, nextTimer, notified,
                 burstVars>>
  /\ UNCHANGED <<appVars, storeVars, regVars, tableVars, uiVars>>

\* snapshot after getGit: a missing source returns null, otherwise the
\* source is copied into the repository directory and git add is issued.
SnapshotCopy(c) ==
  /\ c \in calls
  /\ c.pc = "getGit"
  /\ IF file[c.key] = Absent
       THEN /\ Finish(c, 0)
            /\ UNCHANGED work
       ELSE /\ work' = [work EXCEPT ![c.key] = file[c.key]]
            /\ calls' = Move(c, "add")
            /\ UNCHANGED <<notified>>
  /\ UNCHANGED <<file, index, commits, watchVars, timers, nextTimer, burstVars>>
  /\ UNCHANGED <<appVars, storeVars, regVars, tableVars, uiVars>>

\* git add fileName: the copy is staged; git status is issued.
SnapshotAdd(c) ==
  /\ c \in calls
  /\ c.pc = "add"
  /\ index' = [index EXCEPT ![c.key] = work[c.key]]
  /\ calls' = Move(c, "status")
  /\ UNCHANGED <<file, work, commits, watchVars, timers, nextTimer, notified, burstVars>>
  /\ UNCHANGED <<appVars, storeVars, regVars, tableVars, uiVars>>

\* git status: nothing staged returns null, otherwise git commit is issued.
SnapshotStatus(c) ==
  /\ c \in calls
  /\ c.pc = "status"
  /\ IF Staged = {}
       THEN Finish(c, 0)
       ELSE /\ calls' = Move(c, "commit")
            /\ UNCHANGED <<notified>>
  /\ UNCHANGED <<file, repoVars, watchVars, timers, nextTimer, burstVars>>
  /\ UNCHANGED <<appVars, storeVars, regVars, tableVars, uiVars>>

\* git commit: a new revision when the index differs from HEAD; with
\* nothing to commit git records nothing and the result names no commit.
SnapshotCommit(c) ==
  /\ c \in calls
  /\ c.pc = "commit"
  /\ IF index # HeadTree
       THEN /\ commits' = GitCommit(c.key, c.seq)
            /\ calls' = (calls \ {c}) \cup
                          {[c EXCEPT !.pc = "committed",
                                     !.hash = Len(commits) + 1]}
       ELSE /\ UNCHANGED commits
            /\ calls' = Move(c, "committed")
  /\ UNCHANGED <<file, work, index, watchVars, timers, nextTimer, notified, burstVars>>
  /\ UNCHANGED <<appVars, storeVars, regVars, tableVars, uiVars>>

\* git commit resolved: snapshot returns result.commit || null and the
\* callback notifies.
SnapshotReturn(c) ==
  /\ c \in calls
  /\ c.pc = "committed"
  /\ Finish(c, c.hash)
  /\ UNCHANGED <<file, repoVars, watchVars, timers, nextTimer, burstVars>>
  /\ UNCHANGED <<appVars, storeVars, regVars, tableVars, uiVars>>

Next ==
  \/ \E f \in Files, c \in Contents : Write(f, c)
  \/ \E f \in Files : Delete(f)
  \/ \E f \in Files, c \in Contents : Create(f, c)
  \/ Tick
  \/ \E fs \in SUBSET Files : StartWatching(fs)
  \/ \E k \in Files : StopWatching(k)
  \/ StopAll
  \/ \E t \in timers : Settle(t)
  \/ \E c \in calls : SnapshotCopy(c)
  \/ \E c \in calls : SnapshotAdd(c)
  \/ \E c \in calls : SnapshotStatus(c)
  \/ \E c \in calls : SnapshotCommit(c)
  \/ \E c \in calls : SnapshotReturn(c)

Spec == Init /\ [][Next]_vars

\* A file that stays watched and is only rewritten: no stop, no deletion.
\* Time passes, expired timers run and every git command completes.
WatchedNext ==
  \/ \E f \in Files, c \in Contents : Write(f, c)
  \/ Tick
  \/ \E fs \in SUBSET Files : StartWatching(fs)
  \/ \E t \in timers : Settle(t)
  \/ \E c \in calls : SnapshotCopy(c)
  \/ \E c \in calls : SnapshotAdd(c)
  \/ \E c \in calls : SnapshotStatus(c)
  \/ \E c \in calls : SnapshotCommit(c)
  \/ \E c \in calls : SnapshotReturn(c)

WatchedFairSpec ==
  /\ Init
  /\ [][WatchedNext]_vars
  /\ WF_vars(Tick)
  /\ WF_vars(\E t \in timers : Settle(t))
  /\ WF_vars(\E c \in calls : SnapshotCopy(c))
  /\ WF_vars(\E c \in calls : SnapshotAdd(c))
  /\ WF_vars(\E c \in calls : SnapshotStatus(c))
  /\ WF_vars(\E c \in calls : SnapshotCommit(c))
  /\ WF_vars(\E c \in calls : SnapshotReturn(c))

\* The watched files again, where the backend calls made for one key may
\* never return: the clock, the timers and the git commands of every other
\* key go on, those of HungKey need not.
HungKey == "a.md"

HungFairSpec ==
  /\ Init
  /\ [][WatchedNext]_vars
  /\ WF_vars(Tick)
  /\ WF_vars(\E t \in timers : Settle(t))
  /\ WF_vars(\E c \in calls : c.key # HungKey /\ SnapshotCopy(c))
  /\ WF_vars(\E c \in calls : c.key # HungKey /\ SnapshotAdd(c))
  /\ WF_vars(\E c \in calls : c.key # HungKey /\ SnapshotStatus(c))
  /\ WF_vars(\E c \in calls : c.key # HungKey /\ SnapshotCommit(c))
  /\ WF_vars(\E c \in calls : c.key # HungKey /\ SnapshotReturn(c))

\* ------------------------------------------------------------ application
\* The terminal application around the watcher: its start, the /watch and
\* /unwatch commands and quitting.  The registry is config.json, which is
\* written before every registry operation returns and so outlives the
\* process; the watch table, the closures and the commands do not.
WatcherVars == <<timers, nextTimer, calls, notified, burstVars>>

\* startApp: load the registry, add the initial file if one was given,
\* start the watchers of the project.
Startup(init) ==
  /\ phase = "off"
  /\ issued < MaxCmds
  /\ issued' = issued + 1
  /\ phase' = "up"
  /\ LET listed == IF init = NoFile THEN registry ELSE registry \cup {init}
     IN /\ registry' = listed
        /\ Created + Cardinality(Startable(listed)) <= MaxWatches
        /\ StartWatchingLoop(listed)
  /\ UNCHANGED <<file, repoVars, WatcherVars, cmds>>
  /\ UNCHANGED <<storeVars, regVars, tableVars, uiVars>>

MoveCmd(c, pc) == (cmds \ {c}) \cup {[c EXCEPT !.pc = pc]}

\* /watch f: the file is listed, then snapshot is called and awaited.
WatchBegin(f) ==
  /\ phase \in {"up", "quitting"}
  /\ issued < MaxCmds
  /\ issued' = issued + 1
  /\ registry' = registry \cup {f}
  /\ cmds' = cmds \cup {[id |-> issued + 1, op |-> "watch", file |-> f,
                         pc |-> "getGit"]}
  /\ UNCHANGED <<file, repoVars, watchVars, WatcherVars, phase>>
  /\ UNCHANGED <<storeVars, regVars, tableVars, uiVars>>

\* The command's snapshot after getGit: copy the source, issue git add.
WatchCopy(c) ==
  /\ c \in cmds
  /\ c.op = "watch"
  /\ c.pc = "getGit"
  /\ IF file[c.file] = Absent
       THEN /\ cmds' = MoveCmd(c, "start")
            /\ UNCHANGED work
       ELSE /\ work' = [work EXCEPT ![c.file] = file[c.file]]
            /\ cmds' = MoveCmd(c, "add")
  /\ UNCHANGED <<file, index, commits, watchVars, WatcherVars, registry,
                 phase, issued>>
  /\ UNCHANGED <<storeVars, regVars, tableVars, uiVars>>

WatchAdd(c) ==
  /\ c \in cmds
  /\ c.op = "watch"
  /\ c.pc = "add"
  /\ index' = [index EXCEPT ![c.file] = work[c.file]]
  /\ cmds' = MoveCmd(c, "status")
  /\ UNCHANGED <<file, work, commits, watchVars, WatcherVars, registry,
                 phase, issued>>
  /\ UNCHANGED <<storeVars, regVars, tableVars, uiVars>>

WatchStatus(c) ==
  /\ c \in cmds
  /\ c.op = "watch"
  /\ c.pc = "status"
  /\ cmds' = MoveCmd(c, IF Staged = {} THEN "start" ELSE "commit")
  /\ UNCHANGED <<file, repoVars, watchVars, WatcherVars, registry, phase,
                 issued>>
  /\ UNCHANGED <<storeVars, regVars, tableVars, uiVars>>

WatchCommit(c) ==
  /\ c \in cmds
  /\ c.op = "watch"
  /\ c.pc = "commit"
  /\ IF index # HeadTree
       THEN commits' = GitCommit(c.file, 0 - c.id)
       ELSE UNCHANGED commits
  /\ cmds' = MoveCmd(c, "start")
  /\ UNCHANGED <<file, work, index, watchVars, WatcherVars, registry, phase,
                 issued>>
  /\ UNCHANGED <<storeVars, regVars, tableVars, uiVars>>

\* A git command of the command's snapshot fails: snapshot throws and the
\* command handler ends there.
WatchFail(c) ==
  /\ c \in cmds
  /\ c.op = "watch"
  /\ c.pc \in {"getGit", "add", "status", "commit"}
  /\ cmds' = cmds \ {c}
  /\ UNCHANGED <<file, repoVars, watchVars, WatcherVars, registry, phase,
                 issued>>
  /\ UNCHANGED <<storeVars, regVars, tableVars, uiVars>>

\* The files of the project as the command started them before looking
\* the project up again.
WatchProjectStale(c) == registry \cup {c.file}

\* The project the command finds by its slug after the snapshot: the files
\* the registry lists now (no project when it lists none).
WatchProject(c) == registry

\* snapshot returned: start the watchers of the project found.
WatchStart(c) ==
  /\ c \in cmds
  /\ c.op = "watch"
  /\ c.pc = "start"
  /\ Created + Cardinality(Startable(WatchProject(c))) <= MaxWatches
  /\ StartWatchingLoop(WatchProject(c))
  /\ cmds' = cmds \ {c}
  /\ UNCHANGED <<file, repoVars, WatcherVars, registry, phase, issued>>
  /\ UNCHANGED <<storeVars, regVars, tableVars, uiVars>>

\* /unwatch f: stopWatching closes the key's watcher and awaits the close;
\* with no entry for the key the file is unlisted at once.
UnwatchBegin(f) ==
  /\ phase \in {"up", "quitting"}
  /\ issued < MaxCmds
  /\ issued' = issued + 1
  /\ IF watchers[f] = "none"
       THEN /\ registry' = registry \ {f}
            /\ UNCHANGED <<watchers, cmds>>
       ELSE /\ watchers' = [watchers EXCEPT ![f] = "closing"]
            /\ cmds' = cmds \cup {[id |-> issued + 1, op |-> "unwatch",
                                   file |-> f, pc |-> "closing"]}
            /\ UNCHANGED registry
  /\ UNCHANGED <<file, repoVars, gen, debounceTimer, WatcherVars, phase>>
  /\ UNCHANGED <<storeVars, regVars, tableVars, uiVars>>

\* The close of a key's watcher resolves: every /unwatch awaiting it
\* deletes the key and unlists the file.
CloseResolved(f) ==
  /\ watchers[f] = "closing"
  /\ \E c \in cmds : c.op = "unwatch" /\ c.file = f
  /\ watchers' = [watchers EXCEPT ![f] = "none"]
  /\ registry' = registry \ {f}
  /\ cmds' = {c \in cmds : ~(c.op = "unwatch" /\ c.file = f)}
  /\ UNCHANGED <<file, repoVars, gen, debounceTimer, WatcherVars, phase,
                 issued>>
  /\ UNCHANGED <<storeVars, regVars, tableVars, uiVars>>

\* Key q: stopAll begins.
Quit ==
  /\ phase = "up"
  /\ phase' = "quitting"
  /\ UNCHANGED <<file, repoVars, watchVars, WatcherVars, registry, cmds,
                 issued>>
  /\ UNCHANGED <<storeVars, regVars, tableVars, uiVars>>

\* stopAll reaches an entry of the table and closes its watcher.
QuitClose(k) ==
  /\ phase = "quitting"
  /\ watchers[k] = "open"
  /\ watchers' = [watchers EXCEPT ![k] = "closing"]
  /\ UNCHANGED <<file, repoVars, gen, debounceTimer, WatcherVars, registry,
                 phase, cmds, issued>>
  /\ UNCHANGED <<storeVars, regVars, tableVars, uiVars>>

\* stopAll has closed every entry: the table is cleared and the process
\* exits, and with it its closures and its commands.
Exit ==
  /\ phase = "quitting"
  /\ \A k \in Files : watchers[k] # "open"
  /\ phase' = "off"
  /\ watchers' = [k \in Files |-> "none"]
  /\ gen' = [k \in Files |-> 0]
  /\ debounceTimer' = [k \in Files |-> 0]
  /\ cmds' = {}
  /\ UNCHANGED <<file, repoVars, WatcherVars, registry, issued>>
  /\ UNCHANGED <<storeVars, regVars, tableVars, uiVars>>

AppNext ==
  \/ \E init \in Files \cup {NoFile} : Startup(init)
  \/ \E f \in Files : WatchBegin(f)
  \/ \E c \in cmds : WatchCopy(c)
  \/ \E c \in cmds : WatchAdd(c)
  \/ \E c \in cmds : WatchStatus(c)
  \/ \E c \in cmds : WatchCommit(c)
  \/ \E c \in cmds : WatchFail(c)
  \/ \E c \in cmds : WatchStart(c)
  \/ \E f \in Files : UnwatchBegin(f)
  \/ \E f \in Files : CloseResolved(f)
  \/ Quit
  \/ \E k \in Files : QuitClose(k)
  \/ Exit

AppSpec == Init /\ [][AppNext]_vars

\* ----------------------------------------------------------- store reads
\* The snapshot store read back: content, restore, log and diff, against
\* the histories that snapshot calls build.  A revision is named by its
\* position in the history.
ContentNotAvailable == "(content not available)"
NoDiffAvailable == "(no diff available)"
InitialSnapshot == "(initial snapshot)"

\* The id git gives the empty tree, and the id getDiff passes as the empty
\* tree.
EMPTY_TREE == "4b825dc642cb6eb9a060e54bf8d69288fbee4904"
DiffBase == "4b825dc642cb6eb9a060e54bf899d8b2da2e7862"

Texts == {"v1", ContentNotAvailable}
Failures == {"none", "getGit", "git", "write"}

\* git show hash:fileName: the blob's text, or an error when the revision
\* has no such path.
GitShow(i, f) ==
  IF i \in 1..Len(commits) /\ commits[i].tree[f] # Absent
    THEN [ok |-> TRUE, out |-> commits[i].tree[f]]
    ELSE [ok |-> FALSE, out |-> ""]

\* getContent: getGit is awaited outside the try, git show inside it.
GetContent(i, f, fail) ==
  IF fail = "getGit" THEN [threw |-> TRUE, value |-> ""]
  ELSE IF fail = "git" \/ ~GitShow(i, f).ok
    THEN [threw |-> FALSE, value |-> ContentNotAvailable]
  ELSE [threw |-> FALSE, value |-> GitShow(i, f).out]

\* restore without its try: what getContent or the write throws goes on
\* to the caller.
RestoreUnguarded(i, f, fail) ==
  IF GetContent(i, f, fail).threw \/ fail = "write"
    THEN [value |-> "threw", dest |-> file[f]]
  ELSE IF GetContent(i, f, fail).value = ContentNotAvailable
    THEN [value |-> "false", dest |-> file[f]]
  ELSE [value |-> "true", dest |-> GetContent(i, f, fail).value]

\* restore: what it returns and what the destination holds afterwards.
RestoreResult(i, f, fail) ==
  IF GetContent(i, f, fail).threw
    THEN [value |-> "false", dest |-> file[f]]
  ELSE IF GetContent(i, f, fail).value = ContentNotAvailable
    THEN [value |-> "false", dest |-> file[f]]
  ELSE IF fail = "write"
    THEN [value |-> "false", dest |-> file[f]]
  ELSE [value |-> "true", dest |-> GetContent(i, f, fail).value]

\* restore(slug, hash, fileName, path of the watched file), as the
\* application calls it; an open watcher reports the write.
Restore(i, f, fail) ==
  /\ NoneDue
  /\ ret.n < MaxRestores
  /\ i \in 1..Len(commits)
  /\ file' = [file EXCEPT ![f] = RestoreResult(i, f, fail).dest]
  /\ ret' = [n |-> ret.n + 1, rev |-> i, file |-> f, fail |-> fail,
             value |-> RestoreResult(i, f, fail).value, at |-> nextTimer]
  /\ IF watchers[f] = "open" /\ RestoreResult(i, f, fail).value = "true"
       THEN OnChange(f)
       ELSE UNCHANGED <<timers, debounceTimer, nextTimer, burstVars>>
  /\ UNCHANGED <<repoVars, watchers, gen, calls, notified, appVars, now,
                 regVars, tableVars, uiVars>>

\* The lines of a text: v1 is "line 1", v2 is "line 1" and "line 2".
Lines(c) ==
  IF c = Absent THEN {}
  ELSE IF c = "v1" THEN {"line 1"}
  ELSE IF c = "v2" THEN {"line 1", "line 2"}
  ELSE {c}

Added(old, new) == Cardinality(Lines(new) \ Lines(old))
Removed(old, new) == Cardinality(Lines(old) \ Lines(new))

\* The totals of git log --stat over the paths in scope.
RECURSIVE Insertions(_, _, _)
Insertions(old, new, scope) ==
  IF scope = {} THEN 0
  ELSE LET p == CHOOSE q \in scope : TRUE
       IN Added(old[p], new[p]) + Insertions(old, new, scope \ {p})

RECURSIVE Deletions(_, _, _)
Deletions(old, new, scope) ==
  IF scope = {} THEN 0
  ELSE LET p == CHOOSE q \in scope : TRUE
       IN Removed(old[p], new[p]) + Deletions(old, new, scope \ {p})

ParentTree(i) == IF i = 1 THEN EmptyTree ELSE commits[i - 1].tree

\* One entry of a log: hash, date, message and the stat totals of the
\* revision against the tree old over the paths in scope.
Entry(i, old, scope) ==
  [hash |-> i, date |-> commits[i].date, message |-> commits[i].label,
   insertions |-> Insertions(old, commits[i].tree, scope),
   deletions |-> Deletions(old, commits[i].tree, scope)]

Touches(i, p) == commits[i].tree[p] # ParentTree(i)[p]

\* The paths git takes a path created by revision i to be a copy of: the
\* ones whose text in the parent is the created path's text.
CopySources(i, p) ==
  {q \in Files \ {p} :
     /\ ParentTree(i)[q] # Absent
     /\ ParentTree(i)[q] = commits[i].tree[p]}

\* git log --stat --follow -- p from revision i down: the revisions that
\* change the path; at the revision that creates it git goes on with the
\* path it was copied from, if there is one, and states the revision
\* against that path.
RECURSIVE Follow(_, _)
Follow(i, p) ==
  IF i = 0 THEN <<>>
  ELSE IF ~Touches(i, p) THEN Follow(i - 1, p)
  ELSE IF ParentTree(i)[p] # Absent
    THEN <<Entry(i, ParentTree(i), {p})>> \o Follow(i - 1, p)
  ELSE IF CopySources(i, p) = {} THEN <<Entry(i, ParentTree(i), {p})>>
  ELSE LET q == CHOOSE x \in CopySources(i, p) : TRUE
       IN <<Entry(i, [x \in Files |-> ParentTree(i)[q]], {p})>>
            \o Follow(i - 1, q)

\* getLog(slug): every revision, newest first.
GetLogAll ==
  [k \in 1..Len(commits) |->
     Entry(Len(commits) + 1 - k, ParentTree(Len(commits) + 1 - k), Files)]

\* getLog(slug, fileName) listing the oldest entry first.
GetLogOldestFirst(f) ==
  [k \in 1..Len(Follow(Len(commits), f)) |->
     Follow(Len(commits), f)[Len(Follow(Len(commits), f)) + 1 - k]]

\* getLog(slug, fileName).
GetLog(f) == Follow(Len(commits), f)

\* git diff between two trees, limited to the paths in scope.
GitDiff(old, new, scope) ==
  {[path |-> p, old |-> old[p], new |-> new[p]] :
     p \in {q \in scope : old[q] # new[q]}}

DiffText(d, empty) ==
  IF d = {} THEN [text |-> empty, changes |-> {}]
  ELSE [text |-> "diff", changes |-> d]

\* getDiff without the file filter.
GetDiffUnfiltered(i, f) ==
  IF i \in 2..Len(commits)
    THEN DiffText(GitDiff(commits[i - 1].tree, commits[i].tree, Files),
                  NoDiffAvailable)
  ELSE IF i = 1 /\ Len(commits) >= 1 /\ DiffBase = EMPTY_TREE
    THEN DiffText(GitDiff(EmptyTree, commits[i].tree, Files), InitialSnapshot)
  ELSE [text |-> NoDiffAvailable, changes |-> {}]

\* getDiff(slug, hash, fileName): git diff hash^ hash -- fileName; when
\* that fails (no parent), git diff DiffBase hash without the file filter,
\* which fails unless DiffBase names a tree git knows.
GetDiff(i, f) ==
  IF i \in 2..Len(commits)
    THEN DiffText(GitDiff(commits[i - 1].tree, commits[i].tree, {f}),
                  NoDiffAvailable)
  ELSE IF i = 1 /\ Len(commits) >= 1 /\ DiffBase = EMPTY_TREE
    THEN DiffText(GitDiff(EmptyTree, commits[i].tree, Files), InitialSnapshot)
  ELSE [text |-> NoDiffAvailable, changes |-> {}]

\* getLog as its caller sees it: getGit is awaited outside the try and what
\* it throws goes on to the caller; git log inside the try fails when the
\* backend fails or the repository has no commit yet, and the catch
\* returns the empty list.  No fileName is NoFile.
GetLogResult(f, fail) ==
  IF fail = "getGit" THEN [threw |-> TRUE, value |-> <<>>]
  ELSE IF fail = "git" \/ commits = <<>> THEN [threw |-> FALSE, value |-> <<>>]
  ELSE [threw |-> FALSE, value |-> IF f = NoFile THEN GetLogAll ELSE GetLog(f)]

\* getDiff as its caller sees it: getGit is awaited outside the try; with
\* the backend failing both git diff calls fail.
GetDiffResult(i, f, fail) ==
  IF fail = "getGit" THEN [threw |-> TRUE, value |-> ""]
  ELSE IF fail = "git" THEN [threw |-> FALSE, value |-> NoDiffAvailable]
  ELSE [threw |-> FALSE, value |-> GetDiff(i, f).text]

\* A caller (an expired timer's callback) calls snapshot for the file.
CallSnapshot(f) ==
  /\ nextTimer <= MaxEvents
  /\ Cardinality(calls) < MaxInFlight
  /\ calls' = calls \cup {[seq |-> nextTimer, key |-> f, pc |-> "getGit",
                           hash |-> 0]}
  /\ nextTimer' = nextTimer + 1
  /\ UNCHANGED <<file, repoVars, watchVars, timers, notified, burstVars,
                 appVars, storeVars, regVars, tableVars, uiVars>>

\* A second passes on the wall clock.
ClockTick ==
  /\ now < MaxClock
  /\ now' = now + 1
  /\ UNCHANGED <<file, repoVars, watchVars, WatcherVars, appVars, ret,
                 regVars, tableVars, uiVars>>

\* The store under a client that edits the files, calls snapshot and lets
\* time pass.
StoreNext ==
  \/ \E f \in Files, c \in Contents : Write(f, c)
  \/ \E f \in Files : CallSnapshot(f)
  \/ \E c \in calls : SnapshotCopy(c)
  \/ \E c \in calls : SnapshotAdd(c)
  \/ \E c \in calls : SnapshotStatus(c)
  \/ \E c \in calls : SnapshotCommit(c)
  \/ \E c \in calls : SnapshotReturn(c)
  \/ ClockTick

StoreSpec == Init /\ [][StoreNext]_vars

\* The store under a client that edits the files, calls snapshot and
\* restores revisions, with the backend failing or not.
RestoreNext ==
  \/ \E f \in Files, c \in Texts : Write(f, c)
  \/ \E f \in Files : CallSnapshot(f)
  \/ \E c \in calls : SnapshotCopy(c)
  \/ \E c \in calls : SnapshotAdd(c)
  \/ \E c \in calls : SnapshotStatus(c)
  \/ \E c \in calls : SnapshotCommit(c)
  \/ \E c \in calls : SnapshotReturn(c)
  \/ \E i \in 1..MaxEvents, f \in Files, fail \in Failures : Restore(i, f, fail)

RestoreSpec == Init /\ [][RestoreNext]_vars

\* ---------------------------------------------------------------- scenario
\* The smoke scenario: the application runs, the one file of the scenario
\* is put under watch by the start or by /watch, and it is rewritten only
\* while its watcher is open.
single == "a.md"

WatchedWrite(f, c) ==
  /\ watchers[f] = "open"
  /\ Write(f, c)

\* /watch typed for a file that is not listed yet.
WatchNew(f) ==
  /\ f \notin registry
  /\ WatchBegin(f)

ScenarioNext ==
  \/ \E init \in {single, NoFile} : Startup(init)
  \/ WatchNew(single)
  \/ \E c \in cmds : WatchCopy(c)
  \/ \E c \in cmds : WatchAdd(c)
  \/ \E c \in cmds : WatchStatus(c)
  \/ \E c \in cmds : WatchCommit(c)
  \/ \E c \in cmds : WatchStart(c)
  \/ \E c \in Contents : WatchedWrite(single, c)
  \/ Tick
  \/ \E t \in timers : Settle(t)
  \/ \E c \in calls : SnapshotCopy(c)
  \/ \E c \in calls : SnapshotAdd(c)
  \/ \E c \in calls : SnapshotStatus(c)
  \/ \E c \in calls : SnapshotCommit(c)
  \/ \E c \in calls : SnapshotReturn(c)

ScenarioSpec == Init /\ [][ScenarioNext]_vars

\* ----------------------------------------------------------------- faults
\* The timer callback is an async function without a catch: when snapshot
\* throws (getGit, the copy or a git command fails) the callback's promise
\* rejects and nothing handles the rejection.  What the runtime does with
\* an unhandled rejection is its choice: it reports it and goes on, or it
\* raises it as an uncaught exception, which ends the process and with it
\* the watch table, the timers and the callbacks.
Rejections == {"reported", "terminated"}

SnapshotThrows(c, outcome) ==
  /\ c \in calls
  /\ c.pc \in {"getGit", "add", "status", "commit"}
  /\ IF outcome = "reported"
       THEN /\ calls' = calls \ {c}
            /\ UNCHANGED <<watchers, debounceTimer, timers>>
       ELSE /\ calls' = {}
            /\ watchers' = [k \in Files |-> "none"]
            /\ debounceTimer' = [k \in Files |-> 0]
            /\ timers' = {}
  /\ UNCHANGED <<file, repoVars, gen, nextTimer, notified, burstVars>>
  /\ UNCHANGED <<appVars, storeVars, regVars, tableVars, uiVars>>

\* One watched file that is rewritten, deleted and created again, with
\* snapshots that may throw.
FaultyNext ==
  \/ StartWatching({single})
  \/ \E c \in Contents : Write(single, c)
  \/ Delete(single)
  \/ \E c \in Contents : Create(single, c)
  \/ Tick
  \/ \E t \in timers : Settle(t)
  \/ \E c \in calls : SnapshotCopy(c)
  \/ \E c \in calls : SnapshotAdd(c)
  \/ \E c \in calls : SnapshotStatus(c)
  \/ \E c \in calls : SnapshotCommit(c)
  \/ \E c \in calls : SnapshotReturn(c)
  \/ \E c \in calls, outcome \in Rejections : SnapshotThrows(c, outcome)

FaultySpec == Init /\ [][FaultyNext]_vars

\* --------------------------------------------------------------- registry
\* The project registry (config.ts) by itself: the AppConfig object the
\* process holds and config.json.  A path is the sequence of its segments,
\* a project is [slug, dir, files] and an AppConfig is the sequence of its
\* projects (its editor field is not touched by any registry operation).
Paths ==
  { <<"w", "p", "a.md">>, <<"w", "p", ".", "a.md">>, <<"w", "p", "b.md">>,
    <<"x", "p", "a.md">>, <<"w", "p.1", "a.md">> }

IsNotDot(seg) == seg # "."

\* path.resolve of an absolute path: the "." segments go.
Resolve(path) == SelectSeq(path, IsNotDot)
Basename(path) == path[Len(path)]
Dirname(path) == SubSeq(path, 1, Len(path) - 1)

\* replace(/[^a-zA-Z0-9_-]/g, "_") on the directory names in use.
Sanitize(seg) == IF seg = "p.1" THEN "p_1" ELSE seg

projectSlug(dirPath) == Sanitize(Basename(Resolve(dirPath)))
projectDirFromFile(filePath) == Dirname(Resolve(filePath))

\* An includes that never finds the element.
NoElements(seq) == {}

Range(seq) == {seq[i] : i \in 1..Len(seq)}

\* config.projects.find((p) => p.slug === slug): the position of the first
\* project with the slug, 0 for undefined.
FindProject(c, slug) ==
  IF \E i \in 1..Len(c) : c[i].slug = slug
    THEN CHOOSE i \in 1..Len(c) :
           c[i].slug = slug /\ \A j \in 1..(i - 1) : c[j].slug # slug
    ELSE 0

\* JSON.stringify and JSON.parse of an AppConfig.
Stringify(c) == [kind |-> "json", projects |-> c]
Parse(text) == text.projects

\* An addFileToConfig that pushes the basename without looking for it.
AddFileAlways(c, filePath) ==
  LET slug == projectSlug(projectDirFromFile(filePath))
      c1 == IF FindProject(c, slug) = 0
              THEN Append(c, [slug |-> slug,
                              dir |-> projectDirFromFile(filePath),
                              files |-> <<>>])
              ELSE c
  IN [c1 EXCEPT ![FindProject(c1, slug)].files =
                   Append(@, Basename(Resolve(filePath)))]

\* addFileToConfig up to its save: the config it leaves in memory.
AddFile(c, filePath) ==
  LET slug == projectSlug(projectDirFromFile(filePath))
      fileName == Basename(Resolve(filePath))
      c1 == IF FindProject(c, slug) = 0
              THEN Append(c, [slug |-> slug,
                              dir |-> projectDirFromFile(filePath),
                              files |-> <<>>])
              ELSE c
      i == FindProject(c1, slug)
  IN IF fileName \in Range(c1[i].files)
       THEN c1
       ELSE [c1 EXCEPT ![i].files = Append(@, fileName)]

\* A removeFileFromConfig that keeps a project whose last file went.
RemoveFileKeepProject(c, filePath) ==
  LET slug == projectSlug(projectDirFromFile(filePath))
      fileName == Basename(Resolve(filePath))
      i == FindProject(c, slug)
      IsOther(f) == f # fileName
  IN IF i = 0 THEN c
     ELSE [c EXCEPT ![i].files = SelectSeq(@, IsOther)]

\* removeFileFromConfig up to its save.
RemoveFile(c, filePath) ==
  LET slug == projectSlug(projectDirFromFile(filePath))
      fileName == Basename(Resolve(filePath))
      i == FindProject(c, slug)
      IsOther(f) == f # fileName
      OtherSlug(q) == q.slug # slug
  IN IF i = 0 THEN c
     ELSE IF SelectSeq(c[i].files, IsOther) = <<>>
       THEN SelectSeq(c, OtherSlug)
     ELSE [c EXCEPT ![i].files = SelectSeq(@, IsOther)]

\* A saveConfig that returns without writing.
SaveConfigDropped(c) == [raised |-> FALSE, disk |-> disk]

\* saveConfig(c): writeFileSync throws when the file cannot be written.
SaveConfig(c) ==
  IF ~disk.writable THEN [raised |-> TRUE, disk |-> disk]
  ELSE [raised |-> FALSE, disk |-> [disk EXCEPT !.content = Stringify(c)]]

\* A loadConfig that takes a file it cannot parse for an empty registry.
LoadLenient ==
  IF disk.content.kind = "missing"
    THEN [raised |-> SaveConfig(<<>>).raised, value |-> <<>>,
          disk |-> SaveConfig(<<>>).disk]
  ELSE IF disk.content.kind = "corrupt"
    THEN [raised |-> FALSE, value |-> <<>>, disk |-> disk]
  ELSE [raised |-> FALSE, value |-> Parse(disk.content), disk |-> disk]

\* loadConfig: a missing file is created holding the empty registry, any
\* other is read and parsed; JSON.parse throws on a text that is no JSON.
LoadConfig ==
  IF disk.content.kind = "missing"
    THEN [raised |-> SaveConfig(<<>>).raised, value |-> <<>>,
          disk |-> SaveConfig(<<>>).disk]
  ELSE IF disk.content.kind = "corrupt"
    THEN [raised |-> TRUE, value |-> NoConfig, disk |-> disk]
  ELSE [raised |-> FALSE, value |-> Parse(disk.content), disk |-> disk]

\* getRepoPath(slug): the directory of the project's backend repository.
getRepoPath(slug) == <<"repos", slug>>

otherVars == <<file, repoVars, watchVars, WatcherVars, registry, cmds, issued,
               storeVars, tableVars, uiVars>>

Called(name, path, raised) ==
  op' = [n |-> op.n + 1, name |-> name, path |-> path, raised |-> raised,
         before |-> config]

\* startApp: loadConfig, then addFileToConfig for an initial file; what
\* either throws rejects startApp, and cli.ts exits the process.
StartApp(init) ==
  /\ phase = "off"
  /\ op.n < MaxRegistryCalls
  /\ IF LoadConfig.raised
       THEN /\ Called("start", init, TRUE)
            /\ disk' = LoadConfig.disk
            /\ UNCHANGED <<config, phase>>
       ELSE IF init = <<>>
         THEN /\ Called("start", init, FALSE)
              /\ disk' = LoadConfig.disk
              /\ config' = LoadConfig.value
              /\ phase' = "up"
       ELSE LET c == AddFile(LoadConfig.value, init)
                saved == SaveConfig(c)
            IN /\ Called("start", init, saved.raised)
               /\ disk' = saved.disk
               /\ config' = IF saved.raised THEN NoConfig ELSE c
               /\ phase' = IF saved.raised THEN "off" ELSE "up"
  /\ UNCHANGED otherVars

\* state.config = loadConfig() in the running application.
CallLoadConfig ==
  /\ phase = "up"
  /\ op.n < MaxRegistryCalls
  /\ Called("load", <<>>, LoadConfig.raised)
  /\ disk' = LoadConfig.disk
  /\ config' = IF LoadConfig.raised THEN config ELSE LoadConfig.value
  /\ UNCHANGED <<otherVars, phase>>

\* state.config = addFileToConfig(state.config, path): the object is
\* changed in place, then saved.
CallAddFile(path) ==
  /\ phase = "up"
  /\ op.n < MaxRegistryCalls
  /\ config' = AddFile(config, path)
  /\ Called("add", path, SaveConfig(AddFile(config, path)).raised)
  /\ disk' = SaveConfig(AddFile(config, path)).disk
  /\ UNCHANGED <<otherVars, phase>>

\* state.config = removeFileFromConfig(state.config, path).
CallRemoveFile(path) ==
  /\ phase = "up"
  /\ op.n < MaxRegistryCalls
  /\ config' = RemoveFile(config, path)
  /\ Called("remove", path, SaveConfig(RemoveFile(config, path)).raised)
  /\ disk' = SaveConfig(RemoveFile(config, path)).disk
  /\ UNCHANGED <<otherVars, phase>>

\* The process exits.
ProcessExit ==
  /\ phase = "up"
  /\ phase' = "off"
  /\ config' = NoConfig
  /\ UNCHANGED <<otherVars, disk, op>>

\* config.json is damaged from outside: its text is no JSON any more.
Corrupt ==
  /\ disk.content.kind = "json"
  /\ disk' = [disk EXCEPT !.content = [kind |-> "corrupt"]]
  /\ UNCHANGED <<otherVars, phase, config, op>>

\* config.json becomes unwritable, or writable again.
SetWritable(b) ==
  /\ disk.writable # b
  /\ disk' = [disk EXCEPT !.writable = b]
  /\ UNCHANGED <<otherVars, phase, config, op>>

RegistryNext ==
  \/ \E init \in Paths \cup {<<>>} : StartApp(init)
  \/ CallLoadConfig
  \/ \E path \in Paths : CallAddFile(path)
  \/ \E path \in Paths : CallRemoveFile(path)
  \/ ProcessExit
  \/ Corrupt
  \/ \E b \in BOOLEAN : SetWritable(b)

RegistrySpec == Init /\ [][RegistryNext]_vars

\* ------------------------------------------------------------ watch table
\* The watchers Map in full: its keys are strings, its entries keep their
\* insertion order, and stopWatching and stopAll iterate it while they
\* await the close of one watcher after another.  An iterator of a Map is
\* live: it walks the list of entries by position, skips the deleted ones
\* and reaches those appended while it is suspended.  close() of a watcher
\* gives every caller the same promise, so all the calls awaiting it resume
\* one after another, in the order they began to wait, with nothing in
\* between; awaiting the close of a watcher that is closed already does not
\* let another call in either.
Empty == [key |-> <<>>, slug |-> "", w |-> 0]

\* The project.files lists startWatching is called with.
ProjectFiles ==
  {<<n>> : n \in FileNames} \cup {<< <<"a">>, <<"x", ":", "a">> >>}

restVars == <<file, repoVars, watchVars, WatcherVars, appVars, storeVars,
              regVars, uiVars>>

LiveEntries(es) == {i \in 1..Len(es) : es[i] # Empty}
LiveKeys(es) == {es[i].key : i \in LiveEntries(es)}

\* watchers.has(key).
Has(es, key) == key \in LiveKeys(es)

\* isWatching(slug, fileName).
isWatching(slug, fileName) == Has(entries, Key(slug, fileName))

\* watchers.delete(key) and watchers.clear().
MapDelete(es, key) ==
  [i \in 1..Len(es) |-> IF es[i].key = key THEN Empty ELSE es[i]]
MapClear(es) == [i \in 1..Len(es) |-> Empty]

\* key.endsWith(suffix).
EndsWith(str, suffix) ==
  /\ Len(suffix) <= Len(str)
  /\ SubSeq(str, Len(str) - Len(suffix) + 1, Len(str)) = suffix

\* The entries a call acts on: every one for stopAll; for stopWatching the
\* ones of the slug whose key ends with ":" and the file name, or all of
\* the slug when no file name is given.
Matches(t, e) ==
  \/ t.kind = "all"
  \/ /\ e.slug = t.slug
     /\ t.fileName = NoName \/ EndsWith(e.key, <<":">> \o t.fileName)

\* How far an iterator that began with the call sees: only the entries
\* the table had then.
VisibleAtCall(es, t) == t.len

\* How far the call's iterator sees: the whole list as it is now.
Visible(es, t) == Len(es)

\* The next entry the call's loop body runs for, 0 when the loop ends.
NextMatch(es, t) ==
  LET rest == {i \in (t.pos + 1)..Visible(es, t) :
                 es[i] # Empty /\ Matches(t, es[i])}
  IN IF rest = {} THEN 0 ELSE CHOOSE i \in rest : \A j \in rest : i <= j

\* startWatching's loop: a key in the table is skipped, any other gets a
\* new watcher and an entry at the end of the list.
RECURSIVE StartLoop(_, _, _)
StartLoop(st, slug, files) ==
  IF files = <<>> THEN st
  ELSE LET key == Key(slug, Head(files))
       IN IF Has(st.entries, key)
            THEN StartLoop(st, slug, Tail(files))
            ELSE StartLoop(
                   [st EXCEPT
                      !.entries = Append(@, [key |-> key, slug |-> slug,
                                             w |-> Len(st.fsw) + 1]),
                      !.fsw = Append(@, [state |-> "open",
                                         waiters |-> <<>>])],
                   slug, Tail(files))

\* A call runs on from the top of its loop until it has to wait or ends:
\* Advance takes the next entry and calls close() on its watcher,
\* AfterClose is what follows the await (stopWatching deletes the key it
\* took from the entry; stopAll does nothing), and at the end of the loop
\* stopAll clears the table.
RECURSIVE Advance(_, _), AfterClose(_, _)
Advance(st, id) ==
  LET t == st.tasks[id]
      i == NextMatch(st.entries, t)
  IN IF i = 0
       THEN [st EXCEPT
               !.entries = IF t.kind = "all" THEN MapClear(@) ELSE @,
               !.tasks[id].done = TRUE,
               !.tasks[id].w = 0]
       ELSE LET e == st.entries[i]
                called == [st EXCEPT
                             !.fsw[e.w].state =
                               IF @ = "open" THEN "closing" ELSE @,
                             !.tasks[id].pos = i,
                             !.tasks[id].key = e.key,
                             !.tasks[id].w = e.w]
            IN IF st.fsw[e.w].state = "closed"
                 THEN AfterClose(called, id)
                 ELSE [called EXCEPT !.fsw[e.w].waiters = Append(@, id)]

AfterClose(st, id) ==
  LET t == st.tasks[id]
  IN IF t.kind = "all"
       THEN Advance(st, id)
       ELSE Advance([st EXCEPT
                       !.entries = MapDelete(@, t.key),
                       !.tasks[id].removed = @ \cup {t.key}], id)

RECURSIVE ResumeAll(_, _)
ResumeAll(st, ids) ==
  IF ids = <<>> THEN st
  ELSE ResumeAll(AfterClose(st, Head(ids)), Tail(ids))

TableState == [entries |-> entries, fsw |-> fsw, tasks |-> tasks]

Becomes(st) ==
  /\ entries' = st.entries
  /\ fsw' = st.fsw
  /\ tasks' = st.tasks

NewTask(kind, slug, fileName) ==
  [kind |-> kind, slug |-> slug, fileName |-> fileName, pos |-> 0,
   key |-> <<>>, w |-> 0, done |-> FALSE, len |-> Len(entries),
   had |-> LiveKeys(entries), removed |-> {}]

\* startWatching(project): it has no await and runs to its end.
StartWatchingTable(slug, files) ==
  /\ LET st == StartLoop(TableState, slug, files)
     IN /\ Len(st.fsw) <= MaxFsw
        /\ Becomes(st)
  /\ last' = [k \in AllKeys |->
                IF \E i \in 1..Len(files) : k = Key(slug, files[i])
                  THEN "start" ELSE last[k]]
  /\ UNCHANGED restVars

\* stopWatching(slug, fileName) is called and runs to its first await.
StopWatchingTable(slug, fileName) ==
  /\ Len(tasks) < MaxTasks
  /\ Becomes(Advance([TableState EXCEPT
                        !.tasks = Append(@, NewTask("stop", slug, fileName))],
                     Len(tasks) + 1))
  /\ last' = [k \in AllKeys |->
                IF \/ fileName = NoName /\ k[1] = slug
                   \/ k = Key(slug, fileName)
                  THEN "stop" ELSE last[k]]
  /\ UNCHANGED restVars

\* stopAll() is called and runs to its first await.
StopAllTable ==
  /\ Len(tasks) < MaxTasks
  /\ Becomes(Advance([TableState EXCEPT
                        !.tasks = Append(@, NewTask("all", "", NoName))],
                     Len(tasks) + 1))
  /\ last' = [k \in AllKeys |-> "stop"]
  /\ UNCHANGED restVars

\* The close of a watcher resolves: the calls awaiting it run on.
WatcherClosed(w) ==
  /\ w \in 1..Len(fsw)
  /\ fsw[w].state = "closing"
  /\ Becomes(ResumeAll([TableState EXCEPT
                          !.fsw[w] = [state |-> "closed", waiters |-> <<>>]],
                       fsw[w].waiters))
  /\ UNCHANGED <<last, restVars>>

TableNext ==
  \/ \E slug \in Slugs, files \in ProjectFiles :
       StartWatchingTable(slug, files)
  \/ \E slug \in Slugs, fileName \in FileNames \cup {NoName} :
       StopWatchingTable(slug, fileName)
  \/ StopAllTable
  \/ \E w \in 1..MaxFsw : WatcherClosed(w)

TableSpec == Init /\ [][TableNext]_vars

\* ------------------------------------------------------------ terminal UI
\* The four columns, the focused one and the ones shown for the terminal's
\* width.  ui.pending holds the handlers that are awaiting a store read
\* and will move the focus when it returns.
nonUiVars == <<file, repoVars, watchVars, WatcherVars, appVars, storeVars,
               regVars, tableVars>>

getVisibleColumnIndices(width, focus) ==
  IF width >= WIDE_LAYOUT_BREAKPOINT
    THEN <<COL_PROJECTS, COL_FILES, COL_SNAPSHOTS, COL_PREVIEW>>
  ELSE IF width >= SNAPSHOT_DIFF_ONLY_BREAKPOINT
    THEN IF focus <= COL_FILES
           THEN <<COL_PROJECTS, COL_FILES, COL_SNAPSHOTS>>
           ELSE <<COL_FILES, COL_SNAPSHOTS, COL_PREVIEW>>
  ELSE <<COL_SNAPSHOTS, COL_PREVIEW>>

\* A viewport check that leaves the focus where it is.
KeepFocus(u) == u

coerceFocusForViewport(u) ==
  IF u.width < SNAPSHOT_DIFF_ONLY_BREAKPOINT /\ u.focusedColumn < COL_SNAPSHOTS
    THEN [u EXCEPT !.focusedColumn = COL_SNAPSHOTS]
    ELSE u

updateColumnVisibility(u) ==
  LET c == coerceFocusForViewport(u)
  IN [c EXCEPT !.visible =
                 Range(getVisibleColumnIndices(c.width, c.focusedColumn))]

updateFocusStyles(u) == updateColumnVisibility(coerceFocusForViewport(u))

focusColumn(u, col) ==
  IF col < 0 \/ col > 3 THEN u
  ELSE updateFocusStyles([u EXCEPT !.focusedColumn = col])

\* The itemSelected handler of the column's list: the project and the file
\* list read the store first and move the focus afterwards, the snapshot
\* list moves it at once, the preview has no list.
itemSelected(u, col) ==
  IF col = COL_PROJECTS THEN [u EXCEPT !.pending = @ \cup {"files"}]
  ELSE IF col = COL_FILES THEN [u EXCEPT !.pending = @ \cup {"snapshots"}]
  ELSE IF col = COL_SNAPSHOTS THEN focusColumn(u, COL_PREVIEW)
  ELSE u

Up == ui.phase = "up"
Keys == Up /\ ~ui.commandMode

\* startApp builds the UI in a terminal of some width and focuses the
\* projects column; the key and resize handlers cannot run before that.
UiStart(w) ==
  /\ ui.phase = "off"
  /\ ui' = focusColumn([UiOff EXCEPT !.phase = "up", !.width = w,
                                     !.visible = {COL_PROJECTS, COL_FILES,
                                                  COL_SNAPSHOTS, COL_PREVIEW}],
                       COL_PROJECTS)
  /\ UNCHANGED nonUiVars

\* Key l or right; selects is whether the focused list has a current item.
KeyRight(selects) ==
  /\ Keys
  /\ ui.focusedColumn < 3
  /\ ui' = focusColumn(IF selects THEN itemSelected(ui, ui.focusedColumn)
                                  ELSE ui,
                       ui.focusedColumn + 1)
  /\ UNCHANGED nonUiVars

\* Key h, left or escape.
KeyLeft ==
  /\ Keys
  /\ ui.focusedColumn > 0
  /\ ui' = focusColumn(ui, ui.focusedColumn - 1)
  /\ UNCHANGED nonUiVars

\* Enter on the focused list.
KeyEnter ==
  /\ Keys
  /\ ui.focusedColumn < 3
  /\ ui' = itemSelected(ui, ui.focusedColumn)
  /\ UNCHANGED nonUiVars

\* Key tab with a snapshot selected: the preview mode flips and the
\* preview is read again.
KeyTab ==
  /\ Keys
  /\ ui.focusedColumn >= 2
  /\ ui' = [ui EXCEPT !.previewMode = IF @ = "diff" THEN "full" ELSE "diff",
                      !.pending = @ \cup {"tab"}]
  /\ UNCHANGED nonUiVars

\* Key o: the focused column is expanded, or the layout reset.
KeyO ==
  /\ Keys
  /\ ui' = [ui EXCEPT !.expandedColumn =
                        IF @ = ui.focusedColumn THEN NoColumn
                                                ELSE ui.focusedColumn]
  /\ UNCHANGED nonUiVars

\* Key /: the command input opens.
KeySlash ==
  /\ Keys
  /\ ui' = [ui EXCEPT !.commandMode = TRUE]
  /\ UNCHANGED nonUiVars

\* Escape in command mode.
CommandEscape ==
  /\ Up
  /\ ui.commandMode
  /\ ui' = focusColumn([ui EXCEPT !.commandMode = FALSE], ui.focusedColumn)
  /\ UNCHANGED nonUiVars

\* Enter in command mode: /link with a project selected focuses the
\* preview, no other command moves the focus.
CommandEnter(link) ==
  /\ Up
  /\ ui.commandMode
  /\ LET back == focusColumn([ui EXCEPT !.commandMode = FALSE],
                             ui.focusedColumn)
     IN ui' = IF link THEN focusColumn(back, COL_PREVIEW) ELSE back
  /\ UNCHANGED nonUiVars

\* A handler's store read returns.
HandlerResumes(h) ==
  /\ Up
  /\ h \in ui.pending
  /\ LET rest == [ui EXCEPT !.pending = @ \ {h}]
     IN ui' = IF h = "files" THEN focusColumn(rest, COL_FILES)
              ELSE IF h = "snapshots" THEN focusColumn(rest, COL_SNAPSHOTS)
              ELSE IF rest.focusedColumn = COL_PREVIEW
                     THEN focusColumn(rest, COL_PREVIEW)
              ELSE rest
  /\ UNCHANGED nonUiVars

\* The terminal is resized.
Resized(w) ==
  /\ Up
  /\ w # ui.width
  /\ ui' = updateColumnVisibility([ui EXCEPT !.width = w])
  /\ UNCHANGED nonUiVars

\* Key q: the process exits.
KeyQ ==
  /\ Keys
  /\ ui' = UiOff
  /\ UNCHANGED nonUiVars

UiNext ==
  \/ \E w \in Widths : UiStart(w)
  \/ \E selects \in BOOLEAN : KeyRight(selects)
  \/ KeyLeft
  \/ KeyEnter
  \/ KeyTab
  \/ KeyO
  \/ KeySlash
  \/ CommandEscape
  \/ \E link \in BOOLEAN : CommandEnter(link)
  \/ \E h \in {"files", "snapshots", "tab"} : HandlerResumes(h)
  \/ \E w \in Widths : Resized(w)
  \/ KeyQ

UiSpec == Init /\ [][UiNext]_vars

\* ================================================================ claims
TreeBefore(i) == IF i = 1 THEN EmptyTree ELSE commits[i - 1].tree
Returning(c) == c \in calls /\ \A d \in calls' : d.seq # c.seq
ReturnsRevision(c) == c.pc = "committed" /\ c.hash # 0
EventOn(k) == nextTimer' = nextTimer + 1 /\ debounceTimer'[k] = nextTimer
BurstOver(k) ==
  burstEvents[k] > 0 /\ age[k] = DEBOUNCE_MS /\ PendingFor(k) = {}

\* C1: for every key at most one commit (snapshot) execution is in flight
\* at any time.
C1_OneCommitInFlight ==
  \A k \in Files : Cardinality(InFlight(k)) <= 1

\* C2: a burst of raw events on one key, each less than the debounce
\* window after the previous one, gets exactly one settle, and that settle
\* comes after the burst's last event.
C2_OneSettlePerBurst ==
  \A k \in Files :
    /\ burstSettles[k] <= 1
    /\ BurstOver(k) => burstSettles[k] = 1 /\ sinceEvent[k] = 1

\* C3: after a key is stopped while its debounce timer is armed, no commit
\* for that key starts: a timer callback only ever runs for the watcher
\* that armed it, while that watcher is in the table.
C3_NoSettleAfterStop ==
  [][\A t \in timers :
       (\E c \in calls' \ calls : c.seq = t.id) =>
         (watchers[t.key] = "open" /\ gen[t.key] = t.gen)]_vars

\* C4: a commit of a file whose bytes equal the version last stored for it
\* creates no snapshot: every history entry made by a commit of file f
\* differs in f from the entry before it.
C4_NoSnapshotWithoutChange ==
  \A i \in 1..Len(commits) :
    commits[i].tree[commits[i].label] # TreeBefore(i)[commits[i].label]

\* C5: the history is append-only: a step adds at most one entry and
\* leaves the existing entries as they are, and no commit call adds more
\* than one entry.
C5_AppendOnly ==
  /\ [][/\ Len(commits') \in {Len(commits), Len(commits) + 1}
        /\ SubSeq(commits', 1, Len(commits)) = commits]_vars
  /\ [](\A i, j \in 1..Len(commits) :
          commits[i].by = commits[j].by => i = j)

C5_Witness ==
  /\ Len(commits) = 2
  /\ \E c \in calls : c.pc = "commit"

C7_CommitIsFileScoped ==
  \A i \in 1..Len(commits) :
    \A g \in Files \ {commits[i].label} :
      commits[i].tree[g] = TreeBefore(i)[g]

\* C8: a timer callback invokes the notification sink for its key exactly
\* once when its commit returned a revision and not at all when it
\* returned null; nothing else invokes the sink.
C8_NotifyIffRevision ==
  [][IF \E c \in calls : Returning(c)
       THEN \A c \in calls :
              Returning(c) =>
                notified' = [notified EXCEPT
                               ![c.key] = IF ReturnsRevision(c)
                                            THEN @ + 1 ELSE @]
       ELSE notified' = notified]_vars

C8_Witness ==
  \E c \in calls :
    /\ c.pc = "committed"
    /\ c.hash = 0
    /\ notified[c.key] = 1

\* C9: a notification is delivered before the next raw event of its key
\* is processed: no raw event of a key is handled while a commit of that
\* key has produced a revision whose notification is still to come.
C9_NotifyBeforeNextEvent ==
  [][\A k \in Files :
       (\E c \in InFlight(k) : ReturnsRevision(c)) => ~EventOn(k)]_vars

\* C10: within one key the history entries are in settle order: of two
\* entries made for the same key, the older one comes from the earlier
\* settle.
C10_HistoryInSettleOrder ==
  \A i, j \in 1..Len(commits) :
    (i < j /\ commits[i].label = commits[j].label)
      => commits[i].by < commits[j].by

C12_StartIdempotent ==
  [][\A k \in Files :
       /\ gen'[k] \in {gen[k], gen[k] + 1}
       /\ gen'[k] # gen[k] => watchers[k] = "none" /\ watchers'[k] = "open"
       /\ (watchers[k] = "open" /\ \E j \in Files : gen'[j] # gen[j])
            => /\ watchers'[k] = "open"
               /\ debounceTimer'[k] = debounceTimer[k]
               /\ {t \in timers' : t.key = k} = PendingFor(k)]_vars

C12_Witness ==
  /\ watchers = [f \in Files |-> "open"]
  /\ gen = [f \in Files |-> 1]
  /\ \E t \in PendingFor("a.md") :
       t.id = debounceTimer["a.md"] /\ t.remaining < DEBOUNCE_MS
  /\ debounceTimer["b.md"] = 0

\* C13: the registry and the watch table stay consistent through starts,
\* /watch, /unwatch and quitting: no key is in the watch table unless the
\* registry lists its file, and a listed file has at most one watcher at
\* any time.
C13_RegistryConsistent ==
  /\ [](\A f \in Files : watchers[f] # "none" => f \in registry)
  /\ [][\A f \in Files : gen'[f] > gen[f] =>
          (watchers[f] = "none" /\ gen'[f] = gen[f] + 1)]_vars

C13_Witness ==
  /\ phase = "up"
  /\ issued = MaxCmds
  /\ registry = {"b.md"}
  /\ watchers["b.md"] = "open"
  /\ watchers["a.md"] = "none"
  /\ gen["a.md"] = 1
  /\ cmds = {}

\* C14: for every revision that log lists for a file, content returns the
\* text the revision stored for the file, and restore returns true and
\* leaves the destination holding that text, whatever the text is.
C14_ContentRoundTrip ==
  \A f \in Files : \A k \in 1..Len(GetLog(f)) :
    /\ GetContent(GetLog(f)[k].hash, f, "none") =
         [threw |-> FALSE, value |-> commits[GetLog(f)[k].hash].tree[f]]
    /\ RestoreResult(GetLog(f)[k].hash, f, "none") =
         [value |-> "true", dest |-> commits[GetLog(f)[k].hash].tree[f]]

\* C15: a commit of a file that follows a restore of that file with no
\* edit in between (it started after the restore and stored the restored
\* text) makes a new snapshot only if the restored text differs from the
\* text last stored for the file; restoring the latest revision and
\* committing makes none.
C15_RestoreThenCommit ==
  \A i \in 1..Len(commits) :
    ( /\ ret.value = "true"
      /\ commits[i].label = ret.file
      /\ commits[i].by >= ret.at
      /\ commits[i].tree[ret.file] = commits[ret.rev].tree[ret.file] )
    => commits[i].tree[ret.file] # TreeBefore(i)[ret.file]

\* C16: restore returns false whenever the revision's content could not
\* be retrieved or the destination could not be written, it never throws,
\* and it leaves the destination as it was when the content could not be
\* retrieved.
C16_RestoreFailsClosed ==
  [][ret'.n = ret.n + 1 =>
       /\ ret'.value \in {"true", "false"}
       /\ (ret'.fail \in {"getGit", "git"} \/ ~GitShow(ret'.rev, ret'.file).ok)
            => (ret'.value = "false" /\ file'[ret'.file] = file[ret'.file])
       /\ ret'.fail = "write" => ret'.value = "false"]_vars

C16_Witness ==
  /\ ret.n = 1
  /\ ret.fail = "getGit"
  /\ ret.value = "false"
  /\ GitShow(ret.rev, ret.file).ok
  /\ file[ret.file] # GitShow(ret.rev, ret.file).out

C18_CombinedLogSuperset ==
  \A f \in Files :
    /\ \A k \in 1..Len(GetLog(f)) :
         \E m \in 1..Len(GetLogAll) : GetLogAll[m] = GetLog(f)[k]
    /\ \A k1, k2 \in 1..Len(GetLog(f)) :
         k1 < k2 => \E m1, m2 \in 1..Len(GetLogAll) :
                      /\ m1 < m2
                      /\ GetLogAll[m1] = GetLog(f)[k1]
                      /\ GetLogAll[m2] = GetLog(f)[k2]

\* C19: the diff of the first revision of a file shows the whole text of
\* that file, and of no other file, as additions.
C19_FirstDiffIsWholeFile ==
  \A f \in Files : \A i \in 1..Len(commits) :
    (commits[i].tree[f] # Absent /\ ParentTree(i)[f] = Absent)
      => GetDiff(i, f) =
           [text |-> "diff",
            changes |-> {[path |-> f, old |-> Absent,
                          new |-> commits[i].tree[f]]}]

\* The revision of the file that comes immediately before revision i.
PrevRevision(i, f) ==
  CHOOSE j \in 1..(i - 1) :
    Touches(j, f) /\ \A k \in (j + 1)..(i - 1) : ~Touches(k, f)

\* C20: the diff of a revision of a file that is not the file's first
\* shows exactly the change of that file from its text at the immediately
\* preceding revision of the file to its text at the revision.
C20_LaterDiffIsDelta ==
  \A f \in Files : \A i \in 1..Len(commits) :
    (Touches(i, f) /\ ParentTree(i)[f] # Absent)
      => GetDiff(i, f) =
           [text |-> "diff",
            changes |-> {[path |-> f,
                          old |-> commits[PrevRevision(i, f)].tree[f],
                          new |-> commits[i].tree[f]]}]

C20_Witness ==
  /\ Len(commits) = 2
  /\ Touches(1, "a.md")
  /\ Touches(2, "a.md")
  /\ Touches(2, "b.md")
  /\ GetDiff(2, "a.md") =
       [text |-> "diff",
        changes |-> {[path |-> "a.md", old |-> "v1", new |-> "v2"]}]

\* The file f, holding "line 1" alone of the files, was put under watch
\* and then rewritten once, to "line 1", "line 2"; the debounce has settled
\* and every commit has returned.
ScenarioSettled(f) ==
  /\ registry = {f}
  /\ watchers[f] = "open"
  /\ gen[f] = 1
  /\ nextTimer = 2
  /\ debounceTimer[f] = 1
  /\ file[f] = "v2"
  /\ timers = {}
  /\ calls = {}
  /\ cmds = {}

\* C21: in the scenario, log of the file returns exactly one entry, with
\* one line added and none removed, and the diff of that entry shows
\* exactly one added line.
C21_ScenarioOneEntry ==
  \A f \in Files :
    ScenarioSettled(f) =>
      /\ Len(GetLog(f)) = 1
      /\ GetLog(f)[1].insertions = 1
      /\ GetLog(f)[1].deletions = 0
      /\ GetDiff(GetLog(f)[1].hash, f) =
           [text |-> "diff",
            changes |-> {[path |-> f, old |-> "v1", new |-> "v2"]}]

\* C22: log returns the empty sequence and raises nothing on every backend
\* read failure: the repository cannot be opened or initialised, git log
\* fails, or the project has no history yet.
C22_LogFailsEmpty ==
  \A f \in Files \cup {NoFile} :
    /\ \A fail \in {"getGit", "git"} :
         GetLogResult(f, fail) = [threw |-> FALSE, value |-> <<>>]
    /\ commits = <<>> =>
         GetLogResult(f, "none") = [threw |-> FALSE, value |-> <<>>]

\* C23: whenever diff cannot compute a diff (the revision is unknown, the
\* repository cannot be opened, git diff fails), it raises nothing and
\* returns "(no diff available)", and it never returns another string that
\* is not a diff.
C23_DiffFailsToSentinel ==
  \A f \in Files : \A i \in 0..(MaxEvents + 1) :
    /\ \A fail \in {"getGit", "git"} :
         GetDiffResult(i, f, fail) = [threw |-> FALSE, value |-> NoDiffAvailable]
    /\ i \notin 1..Len(commits) =>
         GetDiffResult(i, f, "none") =
           [threw |-> FALSE, value |-> NoDiffAvailable]
    /\ GetDiffResult(i, f, "none").value \in {"diff", NoDiffAvailable}

\* C24: content raises nothing and returns "(content not available)" on
\* every failure: the revision is unknown, the revision does not hold the
\* file, the repository cannot be opened, git show fails.
C24_ContentFailsToSentinel ==
  \A f \in Files : \A i \in 0..(MaxEvents + 1) :
    /\ \A fail \in {"getGit", "git"} :
         GetContent(i, f, fail) =
           [threw |-> FALSE, value |-> ContentNotAvailable]
    /\ ~GitShow(i, f).ok =>
         GetContent(i, f, "none") =
           [threw |-> FALSE, value |-> ContentNotAvailable]

C26_FailedSettleKeepsWatch ==
  [][\A c \in calls :
       (Returning(c) /\ ~ReturnsRevision(c))
         => /\ watchers'[c.key] = watchers[c.key]
            /\ gen'[c.key] = gen[c.key]
            /\ commits' = commits]_vars

\* The file of the path is tracked: a project of its directory lists its
\* basename.
Tracked(c, path) ==
  /\ c # NoConfig
  /\ \E i \in 1..Len(c) :
       /\ c[i].dir = projectDirFromFile(path)
       /\ Basename(Resolve(path)) \in Range(c[i].files)

SlugOf(path) == projectSlug(projectDirFromFile(path))

\* C27: addFile is idempotent: adding a file that is already tracked
\* leaves the registry (the projects, their directories and the ordered
\* file lists) as it was, and adding a file twice gives the registry that
\* adding it once gives.
C27_AddFileIdempotent ==
  /\ (op.name = "add" /\ config # NoConfig) =>
       /\ Tracked(op.before, op.path) => config = op.before
       /\ AddFile(config, op.path) = config
  /\ config # NoConfig =>
       \A path \in Paths :
         AddFile(AddFile(config, path), path) = AddFile(config, path)

C27_Witness ==
  /\ op.name = "add"
  /\ op.n = 2
  /\ ~op.raised
  /\ op.path = <<"w", "p", ".", "a.md">>
  /\ Tracked(op.before, op.path)
  /\ config = op.before

\* C28: removeFile takes the file's basename out of its project, leaving
\* the project's other files and the other projects as they were, and
\* takes the project out when no file is left; after any calls of addFile
\* and removeFile from the empty registry no project, in memory or in the
\* registry file, has an empty file list.
C28_NoEmptyProject ==
  /\ config # NoConfig => \A i \in 1..Len(config) : config[i].files # <<>>
  /\ disk.content.kind = "json" =>
       \A i \in 1..Len(Parse(disk.content)) :
         Parse(disk.content)[i].files # <<>>
  /\ (op.name = "remove" /\ config # NoConfig) =>
       LET i == FindProject(op.before, SlugOf(op.path))
           j == FindProject(config, SlugOf(op.path))
           IsOther(f) == f # Basename(Resolve(op.path))
           OtherSlug(q) == q.slug # SlugOf(op.path)
       IN /\ SelectSeq(config, OtherSlug) = SelectSeq(op.before, OtherSlug)
          /\ i = 0 => j = 0
          /\ i # 0 =>
               IF SelectSeq(op.before[i].files, IsOther) = <<>>
                 THEN j = 0
                 ELSE /\ j # 0
                      /\ config[j] =
                           [op.before[i] EXCEPT
                              !.files = SelectSeq(@, IsOther)]

C28_Witness ==
  /\ op.name = "remove"
  /\ ~op.raised
  /\ Len(op.before) = 2
  /\ Len(config) = 1
  /\ FindProject(op.before, SlugOf(op.path)) = 1
  /\ config[1] = op.before[2]

\* C29: every registry mutation is flushed before it returns: when
\* addFile or removeFile returns (on its own or in the start), the registry
\* file holds the registry returned.
C29_FlushedBeforeReturn ==
  [][( /\ op'.n = op.n + 1
       /\ ~op'.raised
       /\ \/ op'.name \in {"add", "remove"}
          \/ op'.name = "start" /\ op'.path # <<>> )
       => disk'.content = Stringify(config')]_vars

C29_Witness ==
  /\ op.name = "remove"
  /\ ~op.raised
  /\ op.before # config
  /\ config # <<>>
  /\ disk.content = Stringify(config)

\* C30: a registry file that is corrupt or cannot be written is fatal and
\* propagates: load raises on a corrupt file and returns no registry, load
\* of a missing file and every add and remove raise when the file cannot
\* be written, and a start that meets either halts, the process not
\* running.
C30_RegistryFailurePropagates ==
  [][op'.n = op.n + 1 =>
       /\ (op'.name \in {"load", "start"} /\ disk.content.kind = "corrupt")
            => (op'.raised /\ config' = config /\ disk' = disk)
       /\ (op'.name \in {"load", "start"} /\ disk.content.kind = "missing"
              /\ ~disk.writable)
            => (op'.raised /\ config' = config /\ disk' = disk)
       /\ (op'.name \in {"add", "remove"} /\ ~disk.writable)
            => (op'.raised /\ disk' = disk)
       /\ (op'.name = "start" /\ op'.path # <<>> /\ ~disk.writable)
            => op'.raised
       /\ (op'.name = "start" /\ op'.raised)
            => (phase' = "off" /\ config' = NoConfig)]_vars

C30_Witness ==
  /\ op.name = "start"
  /\ op.n = 3
  /\ op.raised
  /\ op.path = <<>>
  /\ phase = "off"
  /\ disk.content.kind = "corrupt"

\* C31: at most one debounce timer is armed for a key in every reachable
\* state, also after the key's watch was stopped with a timer armed and
\* started again, and a commit of the watcher starts only when an armed
\* timer of its key fires.
C31_OneTimerPerKey ==
  /\ [](\A k \in Files : Cardinality(PendingFor(k)) <= 1)
  /\ [][\A c \in calls' :
          (\A d \in calls : d.seq # c.seq) =>
          \E t \in timers \ timers' :
            t.id = c.seq /\ t.key = c.key /\ t.remaining = 0]_vars

\* The history entries that change file f.
EntriesOf(f) == {i \in 1..Len(commits) : Touches(i, f)}

\* C32: every history entry that changes a watched file f is followed by
\* a notification for f (the n-th such entry by an n-th notification), and
\* every notification for f comes from a commit whose entry is in the log
\* of f, also with commits of the project's other files interleaved.
C32_EntryIffNotification ==
  /\ \A f \in Files : \A n \in 1..MaxEvents :
       (Cardinality(EntriesOf(f)) >= n) ~> (notified[f] >= n)
  /\ [][\A c \in calls :
          (Returning(c) /\ notified'[c.key] # notified[c.key])
            => \E k \in 1..Len(GetLog(c.key)) :
                 GetLog(c.key)[k].hash = c.hash]_vars

\* C33: addFile of a file in directory D yields a registry in which a
\* project whose directory is D lists the file, and two files in different
\* directories are never given the same backend store, also when the
\* directories have the same last component.
C33_DirectoryOwnsProject ==
  /\ (op.name = "add" /\ config # NoConfig) => Tracked(config, op.path)
  /\ \A p, q \in Paths :
       projectDirFromFile(p) # projectDirFromFile(q)
         => getRepoPath(SlugOf(p)) # getRepoPath(SlugOf(q))

NoDuplicates(seq) ==
  \A i, j \in 1..Len(seq) : seq[i] = seq[j] => i = j

WellFormed(c) ==
  /\ \A i, j \in 1..Len(c) : c[i].slug = c[j].slug => i = j
  /\ \A i \in 1..Len(c) : NoDuplicates(c[i].files)

\* C37: after any calls of addFile and removeFile from the empty registry
\* the project slugs are pairwise distinct and no project's file list holds
\* a basename twice, in memory and in the registry file.
C37_SlugsAndFilesDistinct ==
  /\ config # NoConfig => WellFormed(config)
  /\ disk.content.kind = "json" => WellFormed(Parse(disk.content))

C37_Witness ==
  /\ op.name = "add"
  /\ ~op.raised
  /\ op.path = <<"x", "p", "a.md">>
  /\ op.before = <<[slug |-> "p", dir |-> <<"w", "p">>, files |-> <<"a.md">>]>>
  /\ config = op.before
  /\ disk.content = Stringify(config)

\* A call's keys: the one key of (slug, fileName), or every key of the
\* slug when no file name is given.
Targets(t) ==
  IF t.fileName = NoName
    THEN {k \in AllKeys : k[1] = t.slug}
    ELSE {Key(t.slug, t.fileName)}

StopTasks == {i \in 1..Len(tasks) : tasks[i].kind = "stop"}

\* C34: stopWatching(slug, fileName) removes the watch of the key
\* (slug, fileName) and of no other key, whatever the base names are (one
\* with a colon in it, one that ends with another watched base name), and
\* stopWatching(slug) removes the watches of that slug and no other: a
\* call deletes only its own keys, and once it has returned each of its
\* keys that was in the table when it was called has been deleted, by it
\* or by another call.
C34_StopRemovesExactlyItsKeys ==
  \A i \in StopTasks :
    /\ tasks[i].removed \subseteq Targets(tasks[i])
    /\ tasks[i].done =>
         \A k \in Targets(tasks[i]) \cap tasks[i].had :
           \E j \in 1..Len(tasks) :
             \/ k \in tasks[j].removed
             \/ tasks[j].kind = "all" /\ tasks[j].done

\* The watcher of the key's entry.
WatcherOf(k) ==
  entries[CHOOSE i \in LiveEntries(entries) : entries[i].key = k].w

AllResolved == \A i \in 1..Len(tasks) : tasks[i].done

\* C35: when the last call made for a key is a startWatching, the key has
\* an active watch once every call has resolved, also when the
\* startWatching ran while an earlier stopWatching was awaiting close.
C35_LastStartWins ==
  AllResolved =>
    \A k \in AllKeys :
      last[k] = "start" =>
        /\ Has(entries, k)
        /\ fsw[WatcherOf(k)].state = "open"

\* stopAll returns in this step.
StopAllResolves(i) ==
  /\ i \in 1..Len(tasks')
  /\ tasks'[i].kind = "all"
  /\ tasks'[i].done
  /\ i <= Len(tasks) => ~tasks[i].done

\* C36: when stopAll() resolves the table is empty and every watcher
\* created so far is closed, and a watcher that is not closed is never out
\* of the table, so that no call could drop it unclosed; this with
\* startWatching calls running while stopAll awaits.
C36_StopAllClosesEverything ==
  /\ [][\A i \in 1..MaxTasks :
          StopAllResolves(i) =>
            /\ LiveEntries(entries') = {}
            /\ \A w \in 1..Len(fsw') : fsw'[w].state = "closed"]_vars
  /\ [](\A w \in 1..Len(fsw) :
          fsw[w].state # "closed" =>
            \E i \in LiveEntries(entries) : entries[i].w = w)

\* stopAll has returned after closing a watcher that was created while it
\* was awaiting the close of another.
C36_Witness ==
  \E i \in 1..Len(tasks) :
    /\ tasks[i].kind = "all"
    /\ tasks[i].done
    /\ tasks[i].len >= 1
    /\ tasks[i].pos > tasks[i].len
    /\ Len(fsw) >= 2
    /\ \A w \in 1..Len(fsw) : fsw[w].state = "closed"

====
